---- MODULE Spec2Model ----
(***************************************************************************)
(* One run of the batch scraper: the Electron main-process handlers        *)
(* 'scraper:start' / 'scraper:stop', ScraperEngine.start() with its worker *)
(* pool, ScraperEngine.scrapeUrl() as a sequence of awaited stages,        *)
(* ScraperEngine.stop(), the duplicate remap and generateOutputCsv.        *)
(*                                                                         *)
(* JavaScript runs each piece of code between two awaits without           *)
(* interruption, so every action below is "an awaited operation settles,   *)
(* and the code runs on to its next await".  Awaits of promises that are   *)
(* already settled (the return of scrapeUrl, Promise.all of finished       *)
(* workers) are continued inside the same action: no command handler can   *)
(* run in between.                                                         *)
(*                                                                         *)
(* Configuration of the runs: no CSS/XPath selectors and useAISmartScrape  *)
(* off, so the data-scraping block of scrapeUrl has no await and leaves    *)
(* ScrapedData at '{}'; that block is followed on its own in SelSpec.      *)
(*                                                                         *)
(* Spec and FairSpec follow a run over the small input tables, FiveSpec    *)
(* over one table of five URLs with a single worker.  LogSpec follows      *)
(* log() and sendProgress() alone, with the log buffer and the content of  *)
(* every progress update written out.                                      *)
(* CsvSpec follows parseInputCsv and generateOutputCsv cell by cell, with   *)
(* the values dynamic typing produces; SelSpec follows the data block of   *)
(* scrapeUrl, scrapeCustomData and the aiSmartScrape call with selector    *)
(* specs as character sequences; BypassSpec follows one call of            *)
(* attemptBypass through its list of heuristics.                           *)
(***************************************************************************)
EXTENDS Integers, Sequences, FiniteSets, TLC

\* ---- bounds of the model ------------------------------------------------
MaxRows == 2
MaxConcurrency == 2
MaxStops == 1

\* ---- input universe -----------------------------------------------------
\* URLs in the order in which a table may introduce them (tables that differ
\* only by renaming URLs behave alike, so a table uses Urls[1] before Urls[2]).
Urls == <<"http://u1", "http://u2", "http://u3", "http://u4", "http://u5">>
UrlSet == {Urls[i] : i \in 1..Len(Urls)}
\* The URLs of the enumerated tables; the rest serve the five-URL table.
TableUrls == {Urls[1], Urls[2]}
BaseNames == <<"A", "B", "C", "D", "E">>
\* What the web site behind a URL does when nothing interferes.
Outcomes == {"ok", "pagefail", "navfail", "shotfail"}

PageMsg == "browser.newPage: failed"
NavMsg == "page.goto: net::ERR_FAILED"
ShotMsg == "page.screenshot: failed"
ClosedMsg == "Target page, context or browser has been closed"
NoBrowserMsg == "Browser is not initialized."
DuplicateNote == "Result shared from first instance of this URL."
MissingNote == "Internal error: URL not found in results map."

Min(a, b) == IF a < b THEN a ELSE b

VARIABLES
    inputRows,      \* the rows of the input CSV, in file order
    concurrency,    \* config.concurrency
    site,           \* URL -> Outcomes: the behaviour of the site behind it
    isScraping,     \* main process: let isScraping
    pc,             \* position of ScraperEngine.start()
    running,        \* ScraperEngine.running
    browser,        \* ScraperEngine.browser is non-null
    browserState,   \* the browser process: "none", "open", "closing", "closed"
    totalUrls, processedUrls, errorCount,
    urlIndex,       \* the queue cursor of start()
    workers,        \* worker id -> [st, idx, res, page]
    scrapeResults,  \* the result table (URL -> ScrapeResult)
    outputRows,     \* the rows handed to Papa.unparse
    outputCsvPath,  \* start()'s return value is non-empty
    fileWritten,    \* fs.writeFileSync of the output CSV succeeded
    lastStatus,     \* status label of the last progress emission
    stopClosing,    \* stop() calls awaiting browser.close()
    stopsIssued,    \* history: number of stop() calls
    closeCalls,     \* history: number of browser.close() calls
    visits,         \* history: URLs handed to scrapeUrl, in order
    thrown,         \* history: URL -> message of the error its pipeline threw
    fatal,          \* history: cause of the fatal-to-run error, or "none"
    lastProcessed,  \* 'processed' of the last progress emission
    thrownAt,       \* history: URL -> stage at which its pipeline threw
    stopPoint,      \* history: pc and processedUrls at the first stop() call
    logMessages,    \* ScraperEngine.logMessages (entries named by their timestamps)
    clock,          \* number of log entries created so far
    emissions,      \* history: number of progress emissions
    lastTotal,      \* 'total' of the last progress emission
    lastLogs,       \* 'logs' of the last progress emission
    csvPc,          \* CsvSpec: "raw", "parsed" or "written"
    csvRaw,         \* CsvSpec: parseResult.data, the rows Papa.parse returns
    csvRows,        \* CsvSpec: inputRows of parseInputCsv
    csvMap,         \* CsvSpec: the result map handed to generateOutputCsv
    csvOut,         \* CsvSpec: outputRows of generateOutputCsv
    selPc,          \* SelSpec: position in the data block of scrapeUrl
    selIn,          \* SelSpec: the row's and the configuration's settings
    selQueue,       \* SelSpec: allSelectors not yet evaluated
    selTrace,       \* SelSpec: history: the entries evaluated, with outcome
    selData,        \* SelSpec: the object scrapeCustomData fills
    selWarns,       \* SelSpec: history: number of WARN log calls
    selAiCalls,     \* SelSpec: history: number of aiSmartScrape calls
    selAi,          \* SelSpec: history: how the aiSmartScrape call ended
    selScraped,     \* SelSpec: result.ScrapedData
    selStatus,      \* SelSpec: result.Status
    byPc,           \* BypassSpec: position in attemptBypass
    byNext,         \* BypassSpec: index of the next heuristic of the loop
    byOrder,        \* BypassSpec: history: the heuristics evaluated, in order
    byEnds          \* BypassSpec: history: the ways heuristics have ended

vars == <<inputRows, concurrency, site, isScraping, pc, running, browser,
          browserState, totalUrls, processedUrls, errorCount, urlIndex,
          workers, scrapeResults, outputRows, outputCsvPath, fileWritten,
          lastStatus, stopClosing, stopsIssued, closeCalls, visits, thrown,
          fatal, lastProcessed, thrownAt, stopPoint, logMessages, clock,
          emissions, lastTotal, lastLogs, csvPc, csvRaw, csvRows, csvMap,
          csvOut, selPc, selIn, selQueue, selTrace, selData, selWarns,
          selAiCalls, selAi, selScraped, selStatus, byPc, byNext, byOrder,
          byEnds>>

inputVars == <<inputRows, concurrency, site>>

\* The log buffer and the full content of a progress update are followed in
\* LogSpec; the run itself keeps the label and the processed count of the
\* last update.
logVars == <<logMessages, clock, emissions, lastTotal, lastLogs>>

\* parseInputCsv and generateOutputCsv cell by cell are followed in CsvSpec,
\* the data block of scrapeUrl in SelSpec.
csvVars == <<csvPc, csvRaw, csvRows, csvMap, csvOut>>
selVars == <<selPc, selIn, selQueue, selTrace, selData, selWarns, selAiCalls,
             selAi, selScraped, selStatus>>
byVars == <<byPc, byNext, byOrder, byEnds>>
pureVars == <<csvVars, selVars, byVars>>

\* ---- parseInputCsv ------------------------------------------------------
RECURSIVE UniqueUrlsFrom(_, _, _)
UniqueUrlsFrom(rows, i, acc) ==
    IF i > Len(rows) THEN acc
    ELSE LET u == rows[i].URL
             has == \E k \in 1..Len(acc) : acc[k].url = u
         IN  IF u # "" /\ ~has
             THEN UniqueUrlsFrom(rows, i + 1, Append(acc, [url |-> u, firstRow |-> i]))
             ELSE UniqueUrlsFrom(rows, i + 1, acc)

\* A faulty variant: a later row with the same URL replaces the first one.
UniqueUrlsLastRow(rows) ==
    LET q == UniqueUrlsFrom(rows, 1, << >>)
    IN  [k \in 1..Len(q) |->
            [url |-> q[k].url,
             firstRow |-> CHOOSE i \in 1..Len(rows) :
                             /\ rows[i].URL = q[k].url
                             /\ \A j \in 1..Len(rows) : rows[j].URL = q[k].url => j <= i]]

\* Array.from(uniqueUrls.entries()): first-seen order, each with its first row.
UniqueUrls(rows) == UniqueUrlsFrom(rows, 1, << >>)

urlEntries == UniqueUrls(inputRows)

\* ---- getImagePath -------------------------------------------------------
ScreenshotPath(baseName) == "images/" \o baseName \o ".png"
LogoPath(baseName) == "images/" \o baseName \o "-1.png"

\* ---- input tables -------------------------------------------------------
Canonical(rows) ==
    LET q == UniqueUrls(rows)
    IN  \A k \in 1..Len(q) : q[k].url = Urls[k]

Tables ==
    UNION { { [i \in 1..n |-> [BaseName |-> BaseNames[i], URL |-> us[i]]] :
                us \in [1..n -> TableUrls \cup {""}] } : n \in 0..MaxRows }

InitialResult ==
    [ScreenshotFile |-> "", LogoFile |-> "", ScrapedData |-> "{}",
     Status |-> "ERROR", ErrorMessage |-> "Start of scrape."]

IdleWorker == [st |-> "done", idx |-> 0, res |-> InitialResult, page |-> FALSE]

EmptyMap == [u \in {} |-> InitialResult]

\* The main process before any command and the fields of a ScraperEngine as
\* its declarations leave them.
Fresh ==
    /\ isScraping = FALSE
    /\ pc = "idle"
    /\ running = FALSE
    /\ browser = FALSE
    /\ browserState = "none"
    /\ totalUrls = 0
    /\ processedUrls = 0
    /\ errorCount = 0
    /\ urlIndex = 0
    /\ workers = << >>
    /\ scrapeResults = EmptyMap
    /\ outputRows = << >>
    /\ outputCsvPath = FALSE
    /\ fileWritten = FALSE
    /\ lastStatus = "Idle"
    /\ stopClosing = 0
    /\ stopsIssued = 0
    /\ closeCalls = 0
    /\ visits = << >>
    /\ thrown = [u \in UrlSet |-> ""]
    /\ fatal = "none"
    /\ lastProcessed = 0
    /\ thrownAt = [u \in UrlSet |-> ""]
    /\ stopPoint = [pc |-> "none", processed |-> 0]
    /\ logMessages = << >>
    /\ clock = 0
    /\ emissions = 0
    /\ lastTotal = 0
    /\ lastLogs = << >>

\* Nothing has been handed to the functions that CsvSpec and SelSpec follow.
CsvIdle ==
    /\ csvPc = "idle"
    /\ csvRaw = << >>
    /\ csvRows = << >>
    /\ csvMap = << >>
    /\ csvOut = << >>

SelIdle ==
    /\ selPc = "idle"
    /\ selIn = << >>
    /\ selQueue = << >>
    /\ selTrace = << >>
    /\ selData = << >>
    /\ selWarns = 0
    /\ selAiCalls = 0
    /\ selAi = << >>
    /\ selScraped = << >>
    /\ selStatus = "ERROR"

ByIdle ==
    /\ byPc = "idle"
    /\ byNext = 1
    /\ byOrder = << >>
    /\ byEnds = {}

PureIdle == CsvIdle /\ SelIdle /\ ByIdle

Init ==
    /\ inputRows \in {t \in Tables : Canonical(t)}
    /\ concurrency \in 1..MaxConcurrency
    /\ site \in {s \in [UrlSet -> Outcomes] :
                   \A u \in UrlSet :
                      (\A i \in 1..Len(inputRows) : inputRows[i].URL # u) => s[u] = "ok"}
    /\ Fresh
    /\ PureIdle

\* ---- duplicate remap of start() -----------------------------------------
DuplicateOf(result) ==
    [result EXCEPT !.Status = "DUPLICATE", !.ErrorMessage = DuplicateNote]

RECURSIVE RemapFrom(_, _, _, _)
RemapFrom(rows, i, results, final) ==
    IF i > Len(rows) THEN final
    ELSE LET u == rows[i].URL
         IN  IF i = 1 \/ u \notin DOMAIN final
             THEN RemapFrom(rows, i + 1, results, final)
             ELSE IF u \in DOMAIN results
                  THEN RemapFrom(rows, i + 1, results,
                                 [final EXCEPT ![u] = DuplicateOf(results[u])])
                  ELSE RemapFrom(rows, i + 1, results, final)

\* finalScrapeMap: a copy of the result table, then the forEach over inputRows.
Remap(rows, results) == RemapFrom(rows, 1, results, results)

\* ---- generateOutputCsv --------------------------------------------------
\* A faulty variant: a row without a result gets no fallback Status and message.
OutputRowWithoutFallback(row, map) ==
    IF row.URL \in DOMAIN map
    THEN [BaseName |-> row.BaseName, URL |-> row.URL,
          ScreenshotFile |-> map[row.URL].ScreenshotFile,
          LogoFile |-> map[row.URL].LogoFile,
          ScrapedData |-> map[row.URL].ScrapedData,
          Status |-> map[row.URL].Status,
          ErrorMessage |-> map[row.URL].ErrorMessage]
    ELSE [BaseName |-> row.BaseName, URL |-> row.URL,
          ScreenshotFile |-> "", LogoFile |-> "", ScrapedData |-> "",
          Status |-> "", ErrorMessage |-> ""]

\* One output row: the input row overlaid with its URL's result, or with
\* the fallback ERROR; every missing cell is the empty string.
OutputRow(row, map) ==
    IF row.URL \in DOMAIN map
    THEN [BaseName |-> row.BaseName, URL |-> row.URL,
          ScreenshotFile |-> map[row.URL].ScreenshotFile,
          LogoFile |-> map[row.URL].LogoFile,
          ScrapedData |-> map[row.URL].ScrapedData,
          Status |-> map[row.URL].Status,
          ErrorMessage |-> map[row.URL].ErrorMessage]
    ELSE [BaseName |-> row.BaseName, URL |-> row.URL,
          ScreenshotFile |-> "", LogoFile |-> "", ScrapedData |-> "",
          Status |-> "ERROR", ErrorMessage |-> MissingNote]

RECURSIVE OutputRowsFrom(_, _, _, _)
OutputRowsFrom(rows, i, map, out) ==
    IF i > Len(rows) THEN out
    ELSE OutputRowsFrom(rows, i + 1, map, Append(out, OutputRow(rows[i], map)))

\* A faulty variant: rows without a result are left out of the table.
GenerateOutputCsvSkipMissing(rows, map) ==
    OutputRowsFrom(SelectSeq(rows, LAMBDA r : r.URL \in DOMAIN map), 1, map, << >>)

GenerateOutputCsv(rows, map) == OutputRowsFrom(rows, 1, map, << >>)

\* ---- the worker pool of start() ----------------------------------------
\* A faulty variant: the pool is sized by the queue alone.
PoolSizeIgnoringLimit(c, u) == u

\* Math.min(this.config.concurrency, this.totalUrls)
PoolSize(c, u) == Min(c, u)

\* A faulty variant: the loop no longer looks at the running flag.
LoopCondIgnoringRunning(run, idx, len) == idx < len

\* A faulty variant: the loop stops one entry short of the end of the queue.
LoopCondOffByOne(run, idx, len) == run /\ idx < len - 1

\* while (this.running && urlIndex < urlEntries.length)
LoopCond(run, idx, len) == run /\ idx < len

\* A faulty variant: the cursor is read but not advanced.
CursorNotAdvanced(idx) == idx

\* urlIndex++
CursorAfterTake(idx) == idx + 1

LogStatus(run) == IF run THEN "Running..." ELSE "Idle"

\* A faulty variant: the update reports what is left instead of what is done.
EmittedRemaining(p, t) == t - p

\* sendProgress: 'processed: this.processedUrls' (p of t URLs).
EmittedProcessed(p, t) == p

\* scrapeNext from the top of its loop to its next await: the worker it
\* leaves behind, the cursor and the visit history.  scrapeUrl runs up to
\* 'await this.browser.newPage()'; without a browser handle it throws at
\* once and returns its ERROR result.
ScrapeNext(run, idx, vis, hasBrowser) ==
    IF LoopCond(run, idx, Len(urlEntries))
    THEN LET taken == idx + 1
         IN  IF ~run
             THEN [w |-> IdleWorker, idx |-> CursorAfterTake(idx), vis |-> vis]
             ELSE [w |-> IF hasBrowser
                         THEN [st |-> "newPage", idx |-> taken,
                               res |-> InitialResult, page |-> FALSE]
                         ELSE [st |-> "close", idx |-> taken,
                               res |-> [InitialResult EXCEPT !.ErrorMessage = NoBrowserMsg],
                               page |-> FALSE],
                   idx |-> CursorAfterTake(idx),
                   vis |-> Append(vis, urlEntries[taken].url)]
    ELSE [w |-> IdleWorker, idx |-> idx, vis |-> vis]

\* Mutant of AllDone: the pool is over as soon as one worker has returned.
AnyDone(ws) == \E k \in 1..Len(ws) : ws[k].st = "done"

\* pool.map(w => scrapeNext(w.id)): the workers start one after the other.
RECURSIVE StartWorkersFrom(_, _, _, _, _, _)
StartWorkersFrom(k, n, run, idx, vis, ws) ==
    IF k > n THEN [ws |-> ws, idx |-> idx, vis |-> vis]
    ELSE LET r == ScrapeNext(run, idx, vis, TRUE)
         IN  StartWorkersFrom(k + 1, n, run, r.idx, r.vis, Append(ws, r.w))

AllDone(ws) == \A k \in 1..Len(ws) : ws[k].st = "done"

CloseCalled(s) == IF s = "open" THEN "closing" ELSE s

\* Mutant of Finally: start() returns without releasing the browser.
FinallyWithoutClose(hasBrowser, bstate) ==
    /\ running' = FALSE
    /\ pc' = "returned"
    /\ closeCalls' = closeCalls
    /\ browserState' = bstate
    /\ isScraping' = FALSE

\* The finally block of start(), and the return into the 'scraper:start'
\* handler when there is nothing to await.
Finally(hasBrowser, bstate) ==
    /\ running' = FALSE
    /\ IF hasBrowser
       THEN /\ pc' = "finally"
            /\ closeCalls' = closeCalls + 1
            /\ browserState' = CloseCalled(bstate)
            /\ isScraping' = isScraping
       ELSE /\ pc' = "returned"
            /\ closeCalls' = closeCalls
            /\ browserState' = bstate
            /\ isScraping' = FALSE

\* start() after 'await Promise.all(...)': remap, generateOutputCsv,
\* writeFileSync (which may throw), then the finally block.
AfterPool(results, hasBrowser, bstate) ==
    /\ \E writeOk \in BOOLEAN :
          /\ outputRows' = GenerateOutputCsv(inputRows, Remap(inputRows, results))
          /\ outputCsvPath' = TRUE
          /\ fileWritten' = writeOk
          /\ lastStatus' = IF writeOk THEN "Completed" ELSE "Error"
          /\ lastProcessed' = EmittedProcessed(processedUrls', totalUrls)
          /\ fatal' = IF writeOk THEN fatal ELSE "write"
    /\ Finally(hasBrowser, bstate)

\* ---- main process: ipcMain.handle('scraper:start') + start() ------------
\* What the handler does with a start command: 'if (isScraping) return
\* ALREADY_RUNNING', otherwise a new ScraperEngine is created and started.
StartReply(scraping) == IF scraping THEN "ALREADY_RUNNING" ELSE "ACCEPTED"

\* The handler and start() up to 'await chromium.launch(...)'.
StartCmd ==
    /\ StartReply(isScraping) = "ACCEPTED"
    /\ pc = "idle"
    /\ isScraping' = TRUE
    /\ running' = TRUE
    /\ processedUrls' = 0
    /\ errorCount' = 0
    /\ totalUrls' = Len(urlEntries)
    /\ lastStatus' = "Running..."
    /\ lastProcessed' = EmittedProcessed(0, Len(urlEntries))
    /\ pc' = "launching"
    /\ UNCHANGED <<inputVars, logVars, pureVars, stopPoint, browser, browserState, urlIndex, workers,
                   scrapeResults, outputRows, outputCsvPath, fileWritten,
                   stopClosing, stopsIssued, closeCalls, visits, thrown, thrownAt, fatal>>

\* parseInputCsv or ensureDir throws: catch, finally, return '' at once.
StartFatal ==
    /\ StartReply(isScraping) = "ACCEPTED"
    /\ pc = "idle"
    /\ \E cause \in {"parse", "mkdir"} :
          /\ fatal' = cause
          /\ totalUrls' = IF cause = "mkdir" THEN Len(urlEntries) ELSE totalUrls
          /\ lastProcessed' = EmittedProcessed(0, totalUrls')
    /\ processedUrls' = 0
    /\ errorCount' = 0
    /\ lastStatus' = "Error"
    /\ running' = FALSE
    /\ isScraping' = FALSE
    /\ pc' = "returned"
    /\ UNCHANGED <<inputVars, logVars, pureVars, stopPoint, browser, browserState, urlIndex, workers,
                   scrapeResults, outputRows, outputCsvPath, fileWritten,
                   stopClosing, stopsIssued, closeCalls, visits, thrown, thrownAt>>

\* A faulty variant: the catch block logs the error and emits no 'Error'.
LaunchFailWithoutStatus ==
    /\ pc = "launching"
    /\ fatal' = "launch"
    /\ lastStatus' = LogStatus(running)
    /\ lastProcessed' = EmittedProcessed(processedUrls, totalUrls)
    /\ running' = FALSE
    /\ isScraping' = FALSE
    /\ pc' = "returned"
    /\ UNCHANGED <<inputVars, logVars, pureVars, stopPoint, browser, browserState, totalUrls,
                   processedUrls, errorCount, urlIndex, workers, scrapeResults,
                   outputRows, outputCsvPath, fileWritten, stopClosing,
                   stopsIssued, closeCalls, visits, thrown, thrownAt>>

\* chromium.launch rejects: catch, finally (no browser handle), return.
LaunchFail ==
    /\ pc = "launching"
    /\ fatal' = "launch"
    /\ lastStatus' = "Error"
    /\ lastProcessed' = EmittedProcessed(processedUrls, totalUrls)
    /\ running' = FALSE
    /\ isScraping' = FALSE
    /\ pc' = "returned"
    /\ UNCHANGED <<inputVars, logVars, pureVars, stopPoint, browser, browserState, totalUrls, processedUrls,
                   errorCount, urlIndex, workers, scrapeResults, outputRows,
                   outputCsvPath, fileWritten, stopClosing, stopsIssued,
                   closeCalls, visits, thrown, thrownAt>>

\* chromium.launch resolves: the pool is built and every worker runs to its
\* first await; with no worker left waiting start() goes on to aggregate.
LaunchOk ==
    /\ pc = "launching"
    /\ browser' = TRUE
    /\ UNCHANGED <<inputVars, logVars, pureVars, stopPoint, totalUrls, processedUrls, errorCount,
                   scrapeResults, stopClosing, stopsIssued, thrown, thrownAt>>
    /\ LET n == PoolSize(concurrency, totalUrls)
           r == StartWorkersFrom(1, n, running, 0, << >>, << >>)
       IN  /\ workers' = r.ws
           /\ urlIndex' = r.idx
           /\ visits' = r.vis
           /\ IF AllDone(r.ws)
              THEN AfterPool(scrapeResults, TRUE, "open")
              ELSE /\ pc' = "pool"
                   /\ browserState' = "open"
                   /\ lastStatus' = LogStatus(running)
                   /\ lastProcessed' = EmittedProcessed(processedUrls, totalUrls)
                   /\ UNCHANGED <<running, isScraping, closeCalls, outputRows,
                                  outputCsvPath, fileWritten, fatal>>

\* Mutant of MapSet: the map is replaced by the one new entry.
MapSetAlone(m, k, v) == [x \in {k} |-> v]

\* ---- scrapeUrl, stage by stage -----------------------------------------
MapSet(m, k, v) == [x \in DOMAIN m \cup {k} |-> IF x = k THEN v ELSE m[x]]

UrlOf(w) == urlEntries[workers[w].idx].url
BaseNameOf(w) == inputRows[urlEntries[workers[w].idx].firstRow].BaseName

\* What a page operation yields: its own outcome while the browser is up,
\* either that or a closed-target error while browser.close() is under way,
\* and only the error once the browser has gone.
PageOp(natural) ==
    IF browserState = "closed" THEN {ClosedMsg}
    ELSE IF browserState = "closing" THEN {natural, ClosedMsg}
    ELSE {natural}

\* Mutant of CountError: every recorded result counts as an error.
CountEveryResult(count, res) == count + 1

\* if (result.Status === 'ERROR') this.errorCount++ (line 102)
CountError(count, res) == IF res.Status = "ERROR" THEN count + 1 ELSE count

\* scrapeUrl has returned res to scrapeNext: record it, count it, emit
\* progress, go round the loop; the last worker to finish lets start() go on.
ReturnFromScrape(w, res) ==
    LET u == UrlOf(w)
        results == MapSet(scrapeResults, u, res)
        r == ScrapeNext(running, urlIndex, visits, browser)
        ws == [workers EXCEPT ![w] = r.w]
    IN  /\ scrapeResults' = results
        /\ processedUrls' = processedUrls + 1
        /\ errorCount' = CountError(errorCount, res)
        /\ workers' = ws
        /\ urlIndex' = r.idx
        /\ visits' = r.vis
        /\ IF AllDone(ws)
           THEN AfterPool(results, browser, browserState)
           ELSE /\ lastStatus' = IF r.w.st = "done" THEN "Processing"
                                 ELSE LogStatus(running)
                /\ lastProcessed' = EmittedProcessed(processedUrls', totalUrls)
                /\ UNCHANGED <<pc, running, isScraping, closeCalls, browserState,
                               outputRows, outputCsvPath, fileWritten, fatal>>

\* A faulty variant: after the catch block the pipeline goes on to the logo.
CaughtThenLogo(w, msg) ==
    [workers[w] EXCEPT !.st = "logo",
                       !.res = [workers[w].res EXCEPT !.ErrorMessage = msg,
                                                      !.Status = "ERROR"]]

\* A faulty variant: the failure path returns without closing the page.
CaughtWithoutClose(w, msg) ==
    [workers[w] EXCEPT !.st = "done",
                       !.res = [workers[w].res EXCEPT !.ErrorMessage = msg,
                                                      !.Status = "ERROR"]]

\* A faulty variant: the catch block keeps the placeholder message.
CaughtWithoutMessage(w, msg) ==
    [workers[w] EXCEPT !.st = "close",
                       !.res = [workers[w].res EXCEPT !.Status = "ERROR"]]

\* The catch block of scrapeUrl, then its finally block up to page.close().
Caught(w, msg) ==
    [workers[w] EXCEPT !.st = "close",
                       !.res = [workers[w].res EXCEPT !.ErrorMessage = msg,
                                                      !.Status = "ERROR"]]

PipelineFrame ==
    UNCHANGED <<inputVars, logVars, pureVars, stopPoint, isScraping, pc, running, browser, browserState,
                totalUrls, processedUrls, errorCount, urlIndex, scrapeResults,
                outputRows, outputCsvPath, fileWritten, stopClosing,
                stopsIssued, closeCalls, visits, fatal>>

\* 'await this.browser.newPage()' settles.
NewPageDone(w) ==
    /\ pc = "pool"
    /\ workers[w].st = "newPage"
    /\ \E o \in PageOp(IF site[UrlOf(w)] = "pagefail" THEN PageMsg ELSE "ok") :
          IF o = "ok"
          THEN /\ workers' = [workers EXCEPT ![w].st = "goto", ![w].page = TRUE]
               /\ UNCHANGED <<lastStatus, lastProcessed, thrown, thrownAt>>
               /\ PipelineFrame
          ELSE \* no page to close: scrapeUrl returns in the same turn
               /\ thrown' = [thrown EXCEPT ![UrlOf(w)] = o]
               /\ thrownAt' = [thrownAt EXCEPT ![UrlOf(w)] = "newPage"]
               /\ ReturnFromScrape(w, Caught(w, o).res)
               /\ UNCHANGED <<inputVars, logVars, pureVars, stopPoint, browser, totalUrls, stopClosing, stopsIssued>>

\* 'await page.goto(url, ...)' settles.
GotoDone(w) ==
    /\ pc = "pool"
    /\ workers[w].st = "goto"
    /\ \E o \in PageOp(IF site[UrlOf(w)] = "navfail" THEN NavMsg ELSE "ok") :
          IF o = "ok"
          THEN /\ workers' = [workers EXCEPT ![w].st = "networkidle"]
               /\ UNCHANGED <<lastStatus, lastProcessed, thrown, thrownAt>>
          ELSE /\ workers' = [workers EXCEPT ![w] = Caught(w, o)]
               /\ thrown' = [thrown EXCEPT ![UrlOf(w)] = o]
               /\ thrownAt' = [thrownAt EXCEPT ![UrlOf(w)] = "goto"]
               /\ lastStatus' = LogStatus(running)
               /\ lastProcessed' = EmittedProcessed(processedUrls, totalUrls)
    /\ PipelineFrame

\* 'await page.waitForLoadState('networkidle').catch(...)' settles either
\* way; attemptBypass starts and logs.
NetworkIdleDone(w) ==
    /\ pc = "pool"
    /\ workers[w].st = "networkidle"
    /\ workers' = [workers EXCEPT ![w].st = "bypass"]
    /\ lastStatus' = LogStatus(running)
    /\ lastProcessed' = EmittedProcessed(processedUrls, totalUrls)
    /\ UNCHANGED <<thrown, thrownAt>>
    /\ PipelineFrame

\* attemptBypass returns (it swallows every failure); page.screenshot starts.
BypassDone(w) ==
    /\ pc = "pool"
    /\ workers[w].st = "bypass"
    /\ workers' = [workers EXCEPT ![w].st = "screenshot"]
    /\ lastStatus' = LogStatus(running)
    /\ lastProcessed' = EmittedProcessed(processedUrls, totalUrls)
    /\ UNCHANGED <<thrown, thrownAt>>
    /\ PipelineFrame

\* 'await page.screenshot(...)' settles; captureLogo starts.
ScreenshotDone(w) ==
    /\ pc = "pool"
    /\ workers[w].st = "screenshot"
    /\ \E o \in PageOp(IF site[UrlOf(w)] = "shotfail" THEN ShotMsg ELSE "ok") :
          IF o = "ok"
          THEN /\ workers' = [workers EXCEPT ![w].st = "logo",
                                 ![w].res.ScreenshotFile = ScreenshotPath(BaseNameOf(w))]
               /\ UNCHANGED <<thrown, thrownAt>>
          ELSE /\ workers' = [workers EXCEPT ![w] = Caught(w, o)]
               /\ thrown' = [thrown EXCEPT ![UrlOf(w)] = o]
               /\ thrownAt' = [thrownAt EXCEPT ![UrlOf(w)] = "screenshot"]
    /\ lastStatus' = LogStatus(running)
    /\ lastProcessed' = EmittedProcessed(processedUrls, totalUrls)
    /\ PipelineFrame

\* A faulty variant: a logo that cannot be captured fails the URL.
AfterLogoFatal(res, o, baseName) ==
    IF o = "ok"
    THEN [res EXCEPT !.LogoFile = LogoPath(baseName),
                     !.Status = "SUCCESS", !.ErrorMessage = ""]
    ELSE [res EXCEPT !.Status = "ERROR", !.ErrorMessage = o]

\* scrapeUrl from the return of captureLogo (a path, or null when its page
\* calls failed) to the end of its try block: LogoFile is the path or the
\* empty string, the data block has nothing to do, Status SUCCESS.
AfterLogo(res, o, baseName) ==
    [res EXCEPT !.LogoFile = IF o = "ok" THEN LogoPath(baseName) ELSE "",
                !.Status = "SUCCESS",
                !.ErrorMessage = ""]

\* captureLogo returns; the rest of the try block runs; finally awaits
\* page.close().
LogoDone(w) ==
    /\ pc = "pool"
    /\ workers[w].st = "logo"
    /\ \E o \in PageOp("ok") :
          workers' = [workers EXCEPT
                         ![w].st = "close",
                         ![w].res = AfterLogo(workers[w].res, o, BaseNameOf(w))]
    /\ lastStatus' = LogStatus(running)
    /\ lastProcessed' = EmittedProcessed(processedUrls, totalUrls)
    /\ UNCHANGED <<thrown, thrownAt>>
    /\ PipelineFrame

\* 'await page.close()' settles (Playwright reports no error for a page that
\* is already gone) and scrapeUrl returns its result.
PageCloseDone(w) ==
    /\ pc = "pool"
    /\ workers[w].st = "close"
    /\ ReturnFromScrape(w, workers[w].res)
    /\ UNCHANGED <<inputVars, logVars, pureVars, stopPoint, browser, totalUrls, stopClosing, stopsIssued, thrown, thrownAt>>

\* ---- ipcMain.handle('scraper:stop') + stop() ---------------------------
\* A faulty variant: the handler looks at the engine reference alone.
StopGuardIgnoringFlag(hasEngine, scraping) == hasEngine

\* if (scraperEngine && isScraping)
StopGuard(hasEngine, scraping) == hasEngine /\ scraping

\* What the handler answers.
StopReply(hasEngine, scraping) ==
    IF StopGuard(hasEngine, scraping) THEN "STOPPED" ELSE "NOT_RUNNING"

\* The else branch of the handler: it answers NOT_RUNNING and does nothing
\* else.
StopIdle ==
    /\ ~StopGuard(pc # "idle", isScraping)
    /\ UNCHANGED vars

\* The handler and stop() up to 'await this.browser.close()', or to the end
\* when there is no browser handle.
StopCmd ==
    /\ StopGuard(pc # "idle", isScraping)
    /\ stopsIssued < MaxStops
    /\ stopsIssued' = stopsIssued + 1
    /\ stopPoint' = IF stopsIssued = 0
                    THEN [pc |-> pc, processed |-> processedUrls]
                    ELSE stopPoint
    /\ running' = FALSE
    /\ IF browser
       THEN /\ closeCalls' = closeCalls + 1
            /\ browserState' = CloseCalled(browserState)
            /\ stopClosing' = stopClosing + 1
            /\ lastStatus' = LogStatus(running)
            /\ lastProcessed' = EmittedProcessed(processedUrls, totalUrls)
            /\ isScraping' = isScraping
       ELSE /\ lastStatus' = "Cancelled"
            /\ lastProcessed' = EmittedProcessed(processedUrls, totalUrls)
            /\ isScraping' = FALSE
            /\ UNCHANGED <<closeCalls, browserState, stopClosing>>
    /\ UNCHANGED <<inputVars, logVars, pureVars, pc, browser, totalUrls, processedUrls, errorCount,
                   urlIndex, workers, scrapeResults, outputRows, outputCsvPath,
                   fileWritten, visits, thrown, thrownAt, fatal>>

\* stop()'s browser.close() resolves; the handler clears isScraping.
StopCloseDone ==
    /\ stopClosing > 0
    /\ stopClosing' = stopClosing - 1
    /\ browser' = FALSE
    /\ browserState' = "closed"
    /\ lastStatus' = "Cancelled"
    /\ lastProcessed' = EmittedProcessed(processedUrls, totalUrls)
    /\ isScraping' = FALSE
    /\ UNCHANGED <<inputVars, logVars, pureVars, stopPoint, pc, running, totalUrls, processedUrls, errorCount,
                   urlIndex, workers, scrapeResults, outputRows, outputCsvPath,
                   fileWritten, stopsIssued, closeCalls, visits, thrown, thrownAt, fatal>>

\* The browser.close() of start()'s finally block resolves; start() returns
\* and the 'scraper:start' handler clears isScraping.
FinallyCloseDone ==
    /\ pc = "finally"
    /\ browser' = FALSE
    /\ browserState' = "closed"
    /\ pc' = "returned"
    /\ isScraping' = FALSE
    /\ UNCHANGED <<inputVars, logVars, pureVars, stopPoint, running, totalUrls, processedUrls, errorCount,
                   urlIndex, workers, scrapeResults, outputRows, outputCsvPath,
                   fileWritten, lastStatus, lastProcessed, stopClosing, stopsIssued,
                   closeCalls,
                   visits, thrown, thrownAt, fatal>>

Next ==
    \/ StartCmd
    \/ StartFatal
    \/ StopCmd
    \/ LaunchFail
    \/ LaunchOk
    \/ \E w \in DOMAIN workers : NewPageDone(w)
    \/ \E w \in DOMAIN workers : GotoDone(w)
    \/ \E w \in DOMAIN workers : NetworkIdleDone(w)
    \/ \E w \in DOMAIN workers : BypassDone(w)
    \/ \E w \in DOMAIN workers : ScreenshotDone(w)
    \/ \E w \in DOMAIN workers : LogoDone(w)
    \/ \E w \in DOMAIN workers : PageCloseDone(w)
    \/ StopCloseDone
    \/ FinallyCloseDone
    \/ StopIdle

Spec == Init /\ [][Next]_vars

\* ---- fairness: every awaited operation settles --------------------------
WorkerStep(w) ==
    /\ w \in DOMAIN workers
    /\ \/ NewPageDone(w)
       \/ GotoDone(w)
       \/ NetworkIdleDone(w)
       \/ BypassDone(w)
       \/ ScreenshotDone(w)
       \/ LogoDone(w)
       \/ PageCloseDone(w)

\* Some pending operation (launch, a pipeline stage, a browser.close())
\* settles whenever there is one.
Settle ==
    \/ LaunchOk
    \/ LaunchFail
    \/ \E w \in DOMAIN workers : WorkerStep(w)
    \/ StopCloseDone
    \/ FinallyCloseDone

Fairness == WF_vars(Settle)

\* The course of a run depends on the input table only through its queue of
\* unique URLs; blank and repeated URLs matter to the aggregation alone.  The
\* progress properties are checked on the tables that are their own queue.
LiveInit == Init /\ Len(urlEntries) = Len(inputRows)

FairSpec == LiveInit /\ [][Next]_vars /\ Fairness

\* ---- the five-URL table ------------------------------------------------
\* One worker and a table of five rows with five different URLs; the sites
\* of the first two URLs behave in every way, the others load and render.
FiveInit ==
    /\ inputRows = [i \in 1..Len(Urls) |-> [BaseName |-> BaseNames[i], URL |-> Urls[i]]]
    /\ concurrency = 1
    /\ site \in {s \in [UrlSet -> Outcomes] :
                   \A u \in UrlSet \ TableUrls : s[u] = "ok"}
    /\ Fresh
    /\ PureIdle

FiveSpec == FiveInit /\ [][Next]_vars

\* ---- the log buffer and the progress stream -----------------------------
\* log() keeps at most LogCap entries, dropping the LogTrim oldest when the
\* cap is passed; a progress update carries the last ProgressLogs entries.
LogCap == 500
LogTrim == 100
ProgressLogs == 50
\* The number of log() calls followed.
MaxLogs == 610

\* Array.prototype.splice(0, n): the first n entries go.
SpliceFront(s, n) == SubSeq(s, n + 1, Len(s))

\* A faulty variant: the first entries are sent instead of the last.
SliceFirst(s, n) == SubSeq(s, 1, Min(n, Len(s)))

\* Array.prototype.slice(-n): the last n entries, or all when there are fewer.
SliceLast(s, n) == SubSeq(s, (IF Len(s) > n THEN Len(s) - n ELSE 0) + 1, Len(s))

\* A faulty variant: only the entries beyond the cap are dropped.
TrimLogsToCap(s) == IF Len(s) > LogCap THEN SpliceFront(s, Len(s) - LogCap) ELSE s

\* if (this.logMessages.length > 500) this.logMessages.splice(0, 100)
TrimLogs(s) == IF Len(s) > LogCap THEN SpliceFront(s, LogTrim) ELSE s

\* sendProgress(status), the buffer being buf.
SendProgress(status, buf) ==
    /\ emissions' = emissions + 1
    /\ lastStatus' = status
    /\ lastProcessed' = EmittedProcessed(processedUrls', totalUrls')
    /\ lastTotal' = totalUrls'
    /\ lastLogs' = SliceLast(buf, ProgressLogs)

LogFrame ==
    UNCHANGED <<inputVars, pureVars, isScraping, browser, browserState, urlIndex, workers,
                scrapeResults, outputRows, outputCsvPath, fileWritten,
                stopClosing, stopsIssued, closeCalls, visits, thrown, thrownAt,
                fatal, stopPoint>>

\* start() down to sendProgress('Initializing...').
LogStart ==
    /\ pc = "idle"
    /\ pc' = "launching"
    /\ running' = TRUE
    /\ logMessages' = << >>
    /\ errorCount' = 0
    /\ processedUrls' = 0
    /\ UNCHANGED <<totalUrls, clock>>
    /\ SendProgress("Initializing...", logMessages')
    /\ LogFrame

\* this.totalUrls = uniqueUrls.size
LogParsed ==
    /\ pc = "launching"
    /\ pc' = "pool"
    /\ \E n \in 0..MaxRows : totalUrls' = n
    /\ UNCHANGED <<running, logMessages, clock, errorCount, processedUrls,
                   emissions, lastStatus, lastProcessed, lastTotal, lastLogs>>
    /\ LogFrame

\* this.running = false (stop(), and the finally block of start()).
LogRunningCleared ==
    /\ pc # "idle"
    /\ running
    /\ running' = FALSE
    /\ UNCHANGED <<pc, totalUrls, logMessages, clock, errorCount, processedUrls,
                   emissions, lastStatus, lastProcessed, lastTotal, lastLogs>>
    /\ LogFrame

\* One call of log(): push, trim, sendProgress().
LogCall ==
    /\ pc # "idle"
    /\ clock < MaxLogs
    /\ clock' = clock + 1
    /\ logMessages' = TrimLogs(Append(logMessages, clock + 1))
    /\ UNCHANGED <<pc, running, totalUrls, errorCount, processedUrls>>
    /\ SendProgress(LogStatus(running), logMessages')
    /\ LogFrame

\* scrapeNext after scrapeUrl has returned: processedUrls++, errorCount++ for
\* an ERROR result, sendProgress('Processing n/m...').
LogUrlCounted ==
    /\ pc = "pool"
    /\ processedUrls < totalUrls
    /\ processedUrls' = processedUrls + 1
    /\ \E failed \in BOOLEAN :
          errorCount' = IF failed THEN errorCount + 1 ELSE errorCount
    /\ UNCHANGED <<pc, running, totalUrls, logMessages, clock>>
    /\ SendProgress("Processing", logMessages')
    /\ LogFrame

LogNext ==
    \/ LogStart
    \/ LogParsed
    \/ LogRunningCleared
    \/ LogCall
    \/ LogUrlCounted

LogInit ==
    /\ inputRows = << >>
    /\ concurrency = 1
    /\ site = [u \in UrlSet |-> "ok"]
    /\ Fresh
    /\ PureIdle

LogSpec == LogInit /\ [][LogNext]_vars

\* ---- vocabulary of the properties ---------------------------------------
QueueUrls == {urlEntries[k].url : k \in 1..Len(urlEntries)}
RowsOf(u) == {i \in 1..Len(inputRows) : inputRows[i].URL = u}
FirstRowOf(u) == CHOOSE i \in RowsOf(u) : \A j \in RowsOf(u) : i <= j
Active == {w \in DOMAIN workers : workers[w].st # "done"}
Scraped == DOMAIN scrapeResults

\* The result of u's pipeline when nothing but the site decides it.
NaturalResult(u) ==
    LET bn == inputRows[FirstRowOf(u)].BaseName
    IN  IF site[u] = "ok"
        THEN [ScreenshotFile |-> ScreenshotPath(bn), LogoFile |-> LogoPath(bn),
              ScrapedData |-> "{}", Status |-> "SUCCESS", ErrorMessage |-> ""]
        ELSE [InitialResult EXCEPT
                 !.ErrorMessage = IF site[u] = "pagefail" THEN PageMsg
                                  ELSE IF site[u] = "navfail" THEN NavMsg
                                  ELSE ShotMsg]

RowsAligned ==
    /\ Len(outputRows) = Len(inputRows)
    /\ \A i \in 1..Len(inputRows) :
          /\ outputRows[i].BaseName = inputRows[i].BaseName
          /\ outputRows[i].URL = inputRows[i].URL

\* ---- C1 -----------------------------------------------------------------
\* C1: once start() has reached aggregation (completed or cancelled, any
\* concurrency, any completion order) the output table has exactly one row
\* per input row, and the i-th output row carries the BaseName and URL of
\* the i-th input row.
C1_OneRowPerInputRow == outputCsvPath => RowsAligned

\* A cancelled run with one URL scraped and one never scheduled.
C1_Witness ==
    /\ outputCsvPath
    /\ stopsIssued > 0
    /\ Len(urlEntries) = 2
    /\ Cardinality(Scraped) = 1

\* ---- C2 -----------------------------------------------------------------
\* C2: for every scraped URL in two or more input rows, the first
\* occurrence is output with Status SUCCESS or ERROR and the pipeline's own
\* ErrorMessage, and every later occurrence with Status DUPLICATE, the fixed
\* note, and the ScreenshotFile and LogoFile of the first occurrence.
C2_FirstKeepsResultLaterDuplicate ==
    outputCsvPath =>
        \A u \in Scraped :
            Cardinality(RowsOf(u)) >= 2 =>
                LET f == FirstRowOf(u)
                IN  /\ outputRows[f].Status \in {"SUCCESS", "ERROR"}
                    /\ outputRows[f].ErrorMessage = scrapeResults[u].ErrorMessage
                    /\ \A j \in RowsOf(u) \ {f} :
                          /\ outputRows[j].Status = "DUPLICATE"
                          /\ outputRows[j].ErrorMessage = DuplicateNote
                          /\ outputRows[j].ScreenshotFile = outputRows[f].ScreenshotFile
                          /\ outputRows[j].LogoFile = outputRows[f].LogoFile

\* ---- C3 -----------------------------------------------------------------
\* C3: an input row whose URL is in no other row, at any position, is output
\* with the Status and ErrorMessage its own pipeline produced, never
\* DUPLICATE.
C3_UniqueRowKeepsOwnResult ==
    outputCsvPath =>
        \A i \in 1..Len(inputRows) :
            (inputRows[i].URL \in Scraped /\ RowsOf(inputRows[i].URL) = {i}) =>
                /\ outputRows[i].Status = scrapeResults[inputRows[i].URL].Status
                /\ outputRows[i].ErrorMessage =
                       scrapeResults[inputRows[i].URL].ErrorMessage

\* ---- C4 -----------------------------------------------------------------
\* C4: within one run no URL is handed to scrapeUrl twice, and no two
\* workers hold the same queue index.
C4_EachUrlVisitedOnce ==
    /\ \A i, j \in 1..Len(visits) : i # j => visits[i] # visits[j]
    /\ \A v, w \in Active : v # w => workers[v].idx # workers[w].idx

\* Two workers are inside a pipeline at the same time.
C4_Witness ==
    /\ Cardinality(Active) = 2
    /\ \A w \in Active : workers[w].st \notin {"newPage", "close"}

\* ---- C5 -----------------------------------------------------------------
\* C5: a run in which stop() is never called and no fatal-to-run error
\* occurs eventually returns with every worker finished, a result for every
\* unique URL and processed = total (every awaited operation settling).
C5_AllUrlsScraped ==
    (pc = "launching") ~>
        \/ stopsIssued > 0
        \/ fatal # "none"
        \/ /\ pc = "returned"
           /\ AllDone(workers)
           /\ QueueUrls \subseteq Scraped
           /\ processedUrls = totalUrls

C5_Witness ==
    /\ pc = "returned"
    /\ stopsIssued = 0
    /\ fatal = "none"
    /\ concurrency = 1
    /\ totalUrls = 2
    /\ processedUrls = 2
    /\ Scraped = QueueUrls

\* ---- C6 -----------------------------------------------------------------
\* C6: in every state the number of scrapeUrl invocations that have started
\* and not returned is at most min(concurrency, number of unique URLs).
C6_ActiveWithinLimit ==
    Cardinality(Active) <= Min(concurrency, Len(urlEntries))

\* The limit binds: more URLs queued than the concurrency allows at once.
C6_Witness ==
    /\ concurrency = 1
    /\ Len(urlEntries) = 2
    /\ Cardinality(Active) = 1
    /\ urlIndex = 1

\* ---- C7 -----------------------------------------------------------------
C7_Recorded ==
    \A u \in Scraped :
        thrown[u] # "" => /\ scrapeResults[u].Status = "ERROR"
                          /\ scrapeResults[u].ErrorMessage = thrown[u]

C7_RunGoesOn ==
    (pc \in {"finally", "returned"} /\ \E u \in UrlSet : thrown[u] # "") =>
        outputCsvPath

C7_WorkerGoesOn ==
    \A w \in DOMAIN workers :
        (/\ pc = "pool"
         /\ w \in Active
         /\ UrlOf(w) \notin Scraped
         /\ UrlOf(w) \in DOMAIN scrapeResults'
         /\ scrapeResults'[UrlOf(w)].Status = "ERROR") =>
            /\ \A v \in DOMAIN workers \ {w} : workers'[v] = workers[v]
            /\ (running /\ urlIndex < Len(urlEntries)) =>
                  /\ workers'[w].st = "newPage"
                  /\ workers'[w].idx = urlIndex + 1

\* C7: an error thrown inside one URL's pipeline is recorded as that URL's
\* result with Status ERROR and the error's message; the worker that records
\* it pulls the next URL if the run is still running and the queue is not
\* empty; no other worker changes in that step; and the run still reaches
\* aggregation instead of failing.
C7_FailureStaysInItsPipeline ==
    [](C7_Recorded /\ C7_RunGoesOn) /\ [][C7_WorkerGoesOn]_vars

\* A site failure was recorded and the same worker went on to the next URL.
C7_Witness ==
    /\ concurrency = 1
    /\ stopsIssued = 0
    /\ Len(visits) = 2
    /\ Scraped = {Urls[1]}
    /\ scrapeResults[Urls[1]].ErrorMessage = NavMsg

\* ---- C8 -----------------------------------------------------------------
\* C8: every recorded result is the one the pipeline would have produced
\* had stop() not been issued: stop() makes no stage of an in-flight URL
\* fail.
C8_InFlightUnaffectedByStop ==
    \A u \in Scraped : scrapeResults[u] = NaturalResult(u)

\* ---- C9 -----------------------------------------------------------------
\* C9: once stop() has been issued (the running flag cleared) the queue
\* cursor never advances and no further URL is handed to scrapeUrl, also
\* when stop() comes before the pool has started.
C9_NoPullAfterStop ==
    [][stopsIssued > 0 => (urlIndex' = urlIndex /\ visits' = visits)]_vars

\* stop() came while a URL was in flight with another still queued; the run
\* has returned and the queued URL was never taken.
C9_Witness ==
    /\ stopsIssued > 0
    /\ pc = "returned"
    /\ Len(urlEntries) = 2
    /\ urlIndex = 1
    /\ processedUrls = 1

\* ---- C10 ----------------------------------------------------------------
C10_Covered ==
    fileWritten =>
        /\ RowsAligned
        /\ \A i \in 1..Len(inputRows) :
              inputRows[i].URL \notin Scraped =>
                  /\ outputRows[i].Status = "ERROR"
                  /\ outputRows[i].ErrorMessage = MissingNote
                  /\ outputRows[i].ScreenshotFile = ""
                  /\ outputRows[i].LogoFile = ""

\* C10: a run whose browser launch was requested, cancelled or not and with
\* any number of per-URL failures, goes on to aggregation and writes its
\* output table unless a fatal-to-run error (launch, write) ends it; the
\* written table has one row per input row in order, and every row whose URL
\* has no result carries the missing-result ERROR.
C10_OutputAlwaysProduced ==
    /\ [](C10_Covered)
    /\ (pc = "launching") ~> (fileWritten \/ fatal # "none")

\* Written after a cancellation and a per-URL failure, one URL never taken.
C10_Witness ==
    /\ fileWritten
    /\ stopsIssued > 0
    /\ \E u \in Scraped : thrown[u] # ""
    /\ \E i \in 1..Len(inputRows) :
          inputRows[i].URL # "" /\ inputRows[i].URL \notin Scraped

\* ---- C11 ----------------------------------------------------------------
\* Output rows that carry what a pipeline produced, and output rows that
\* carry the missing-result fallback.
PipelineRows ==
    {i \in 1..Len(outputRows) :
        /\ outputRows[i].Status \in {"SUCCESS", "ERROR"}
        /\ outputRows[i].ErrorMessage # MissingNote}

MissingRows ==
    {i \in 1..Len(outputRows) :
        /\ outputRows[i].Status = "ERROR"
        /\ outputRows[i].ErrorMessage = MissingNote}

FiveUrlsOneWorker ==
    /\ outputCsvPath
    /\ concurrency = 1
    /\ Len(urlEntries) = Len(Urls)
    /\ Len(inputRows) = Len(Urls)
    /\ stopPoint.pc = "pool"

\* C11 as stated: with concurrency 1 and 5 unique URLs, a stop() issued
\* after exactly 1 URL has completed leaves an output table with exactly 1
\* row of Status SUCCESS or ERROR produced by a pipeline and 4 rows with the
\* missing-result ERROR.
C11_StopAfterOneCompleted ==
    (FiveUrlsOneWorker /\ stopPoint.processed = 1) =>
        /\ Cardinality(PipelineRows) = 1
        /\ Cardinality(MissingRows) = Len(Urls) - 1

\* C11 amended: with concurrency 1 and 5 unique URLs, a stop() issued while
\* the first URL is in flight (before any URL has completed) leaves an
\* output table whose first row has Status SUCCESS or ERROR produced by its
\* pipeline and whose other 4 rows carry the missing-result ERROR.
C11_StopDuringFirstUrl ==
    (FiveUrlsOneWorker /\ stopPoint.processed = 0) =>
        /\ PipelineRows = {1}
        /\ outputRows[1].Status = scrapeResults[Urls[1]].Status
        /\ MissingRows = 2..Len(Urls)

\* stop() came during the first URL; the table is out with one URL scraped.
C11_Witness ==
    /\ FiveUrlsOneWorker
    /\ stopPoint.processed = 0
    /\ processedUrls = 1
    /\ Scraped = {Urls[1]}

\* ---- C12 ----------------------------------------------------------------
\* C12: in every run whose browser was launched, browser.close() is called
\* exactly once over the whole run: never a second time, and once by the
\* time start() has returned and no stop() is left waiting, whether the run
\* succeeded, failed fatally or was cancelled at any point.
C12_BrowserClosedExactlyOnce ==
    /\ closeCalls <= 1
    /\ (pc = "returned" /\ stopClosing = 0 /\ browserState # "none") =>
           closeCalls = 1

\* ---- C13 ----------------------------------------------------------------
\* The run's ScraperEngine.start() has been called and has not returned.
RunUnfinished == pc \in {"launching", "pool", "finally"}

\* C13: a start command that arrives while an earlier run has not finished
\* (start() not yet returned, the wind-down after a stop command included)
\* is answered ALREADY_RUNNING, so that no second engine is created and no
\* two runs execute at the same time.
C13_StartRejectedWhileRunUnfinished ==
    RunUnfinished => StartReply(isScraping) = "ALREADY_RUNNING"

\* ---- C14 ----------------------------------------------------------------
\* No run is in progress: start() was never called, or it has returned.
NoRun == pc \in {"idle", "returned"}

C14_Frame ==
    (NoRun /\ (StopCmd \/ StopIdle)) =>
        UNCHANGED <<isScraping, pc, running, browser, browserState,
                    lastStatus, lastProcessed, logVars, stopClosing,
                    stopsIssued, closeCalls>>

\* C14: a stop command issued when no run is in progress is answered
\* NOT_RUNNING, and handling it changes nothing: not the isScraping flag,
\* not the engine (its reference, its fields, its log buffer; no stop() is
\* called on it) and not the progress stream (no emission).
C14_IdleStopChangesNothing ==
    /\ [](NoRun => StopReply(pc # "idle", isScraping) = "NOT_RUNNING")
    /\ [][C14_Frame]_vars

\* A finished run: the engine reference is still set, isScraping is not.
C14_Witness ==
    /\ pc = "returned"
    /\ fileWritten
    /\ lastStatus = "Completed"
    /\ ENABLED StopIdle

\* ---- C15 ----------------------------------------------------------------
\* C15: when a fatal-to-run error occurs (input unreadable or unparseable,
\* output directory or browser not available, output not writable) start()
\* does not return normally: pc = "returned" is 'return outputCsvPath' at
\* the end of start(), the one way start() ends in this model.
C15_FatalErrorThrows == fatal # "none" => pc # "returned"

\* ---- C16 ----------------------------------------------------------------
\* C16: once the browser has failed to launch, no worker and no pipeline
\* has been or will be started in that run, the processed count stays 0,
\* and the last status label on the progress stream is "Error".
C16_LaunchFailureEndsRun ==
    fatal = "launch" =>
        /\ workers = << >>
        /\ visits = << >>
        /\ Scraped = {}
        /\ processedUrls = 0
        /\ lastProcessed = 0
        /\ lastStatus = "Error"

\* The launch failed with URLs waiting in the queue.
C16_Witness ==
    /\ fatal = "launch"
    /\ pc = "returned"
    /\ totalUrls = 2

\* ---- C17 ----------------------------------------------------------------
C17_Trim ==
    (LogCall /\ Len(logMessages) = LogCap) =>
        /\ Len(logMessages') = LogCap + 1 - LogTrim
        /\ \A i \in 1..Len(logMessages') :
              logMessages'[i] = Append(logMessages, clock + 1)[LogTrim + i]

\* C17: after every log() call the buffer holds at most 500 entries; a
\* log() call on a buffer of 500 entries drops exactly the 100 oldest and
\* leaves the 401 newest (the new entry last) in their order.
C17_LogBufferCapped ==
    /\ [](Len(logMessages) <= LogCap)
    /\ [][C17_Trim]_vars

\* The 501st log() call has just trimmed the buffer.
C17_Witness ==
    /\ clock = LogCap + 1
    /\ Len(logMessages) = LogCap + 1 - LogTrim
    /\ logMessages[1] = LogTrim + 1
    /\ logMessages[Len(logMessages)] = clock

\* ---- C18 ----------------------------------------------------------------
\* The k most recent entries of s, in order.
MostRecent(s, k) == [i \in 1..k |-> s[Len(s) - k + i]]

C18_OneEmission ==
    (LogCall \/ LogUrlCounted) =>
        /\ emissions' = emissions + 1
        /\ lastProcessed' = processedUrls'
        /\ lastTotal' = totalUrls'
        /\ lastLogs' = MostRecent(logMessages', Min(ProgressLogs, Len(logMessages')))

\* C18: every log() call and every completed URL makes exactly one progress
\* emission before anything else happens, and the update carries the current
\* processed and total counts and the most recent min(50, buffer length) log
\* entries in order.
C18_EmissionPerLogAndUrl == [][C18_OneEmission]_vars

\* An update sent for a completed URL with more than 50 entries in the buffer.
C18_Witness ==
    /\ lastStatus = "Processing"
    /\ lastProcessed = 2
    /\ Len(logMessages) > ProgressLogs
    /\ Len(lastLogs) = ProgressLogs
    /\ lastLogs[ProgressLogs] = logMessages[Len(logMessages)]

\* ---- C19 ----------------------------------------------------------------
\* C19: within one run, the processed value carried by the progress
\* emissions never decreases from one emission to the next.
C19_ProcessedNeverDecreases ==
    [][pc' # "idle" => lastProcessed' >= lastProcessed]_vars

\* Emissions have carried 0, 1 and 2; the last one is the final 'Completed'.
C19_Witness ==
    /\ lastProcessed = 2
    /\ processedUrls = 2
    /\ lastStatus = "Completed"
    /\ stopsIssued = 0

StageOrder ==
    <<"newPage", "goto", "networkidle", "bypass", "screenshot", "logo", "close">>

StageRank(st) == CHOOSE k \in 1..Len(StageOrder) : StageOrder[k] = st

\* A worker inside a pipeline moves to the stage that follows its own, or,
\* when its stage is one of the fatal ones and has failed, to "close"; a
\* pipeline that ends hands the worker to the first stage of its next URL.
C21_StageStep ==
    \A w \in DOMAIN workers :
        (pc = "pool" /\ w \in Active /\ workers'[w] # workers[w]) =>
            LET st == workers[w].st
                u == UrlOf(w)
                ended == u \in DOMAIN scrapeResults' /\ u \notin Scraped
            IN  IF ended
                THEN /\ (st = "close" \/ (st = "newPage" /\ thrownAt'[u] = "newPage"))
                     /\ workers'[w].st \in {"newPage", "done"}
                ELSE /\ workers'[w].idx = workers[w].idx
                     /\ \/ StageRank(workers'[w].st) = StageRank(st) + 1
                        \/ /\ workers'[w].st = "close"
                           /\ st \in {"goto", "screenshot"}
                           /\ thrownAt'[u] = st

\* After a fatal failure nothing but Finalize is left, and the result shows
\* that no later capture or extraction ran.
C21_NothingAfterFailure ==
    /\ \A w \in Active :
          thrownAt[UrlOf(w)] # "" => workers[w].st = "close"
    /\ \A u \in Scraped :
          /\ thrownAt[u] # "" => /\ scrapeResults[u].LogoFile = ""
                                 /\ scrapeResults[u].ScrapedData = "{}"
                                 /\ scrapeResults[u].ScreenshotFile = ""

C22_PageOnlyInsidePipeline ==
    \A w \in DOMAIN workers :
        /\ workers[w].st \in {"newPage", "done"} => ~workers[w].page
        /\ workers[w].st \in {"goto", "networkidle", "bypass", "screenshot", "logo"} =>
               workers[w].page

\* A worker that ends a pipeline has awaited page.close() if it had a page,
\* and starts on its next URL without one.
C22_ClosedBeforeNextPull ==
    \A w \in DOMAIN workers :
        (pc = "pool" /\ w \in Active /\ UrlOf(w) \notin Scraped
                     /\ UrlOf(w) \in DOMAIN scrapeResults') =>
            /\ workers[w].page => workers[w].st = "close"
            /\ ~workers'[w].page

\* C22: every page a worker opens is closed on every exit path of its
\* pipeline before the worker pulls its next URL; a worker never holds more
\* than one open page; no page is open when the run ends.
C22_PagesReleased ==
    /\ [](C22_PageOnlyInsidePipeline)
    /\ []((pc \in {"finally", "returned"}) =>
              \A w \in DOMAIN workers : ~workers[w].page)
    /\ [][C22_ClosedBeforeNextPull]_vars

\* The run has ended after a failed and a successful pipeline, both of which
\* had a page.
C22_Witness ==
    /\ pc = "returned"
    /\ Cardinality(Scraped) = 2
    /\ \E u \in Scraped : thrownAt[u] = "goto"
    /\ \E u \in Scraped : thrownAt[u] = ""

\* ---- C24 ----------------------------------------------------------------
C24_Queue ==
    /\ QueueUrls = {inputRows[i].URL : i \in 1..Len(inputRows)} \ {""}
    /\ \A j, k \in 1..Len(urlEntries) :
          j < k => /\ urlEntries[j].url # urlEntries[k].url
                   /\ urlEntries[j].firstRow < urlEntries[k].firstRow
    /\ \A k \in 1..Len(urlEntries) :
          /\ urlEntries[k].firstRow \in RowsOf(urlEntries[k].url)
          /\ \A i \in RowsOf(urlEntries[k].url) : urlEntries[k].firstRow <= i

\* C24: the work queue that parseInputCsv hands to start() holds exactly the
\* distinct non-empty URLs of the input, each once, in order of first
\* appearance, each with the earliest row that carries it; rows with an
\* empty URL seed no entry and stay in the row sequence.  The run counts and
\* visits the queue as it stands.
C24_QueueOfFirstRows ==
    (pc # "idle" /\ fatal # "parse") =>
        /\ C24_Queue
        /\ totalUrls = Len(urlEntries)
        /\ \A k \in 1..Len(visits) : visits[k] = urlEntries[k].url

\* A parsed table with a repeated URL: one queue entry, for its first row.
C24_Witness ==
    /\ pc = "pool"
    /\ Len(inputRows) = 2
    /\ inputRows[1].URL = inputRows[2].URL
    /\ Len(urlEntries) = 1
    /\ urlEntries[1].firstRow = 1
    /\ visits = <<inputRows[1].URL>>

\* ---- C25 ----------------------------------------------------------------
C25_Fallback ==
    outputCsvPath =>
        \A i \in 1..Len(inputRows) :
            inputRows[i].URL \notin Scraped =>
                outputRows[i] =
                    [BaseName |-> inputRows[i].BaseName, URL |-> inputRows[i].URL,
                     ScreenshotFile |-> "", LogoFile |-> "", ScrapedData |-> "",
                     Status |-> "ERROR", ErrorMessage |-> MissingNote]

\* Every launched run whose start() has come to its end went through
\* aggregation; only the write of the file can have failed after it.
C25_AggregationDone ==
    (pc \in {"finally", "returned"} /\ fatal \in {"none", "write"}) =>
        /\ outputCsvPath
        /\ Len(outputRows) = Len(inputRows)

\* C25: every input row whose URL has no entry in the result table at
\* aggregation time (an empty URL, or a URL never scheduled because of a
\* cancellation) is output with Status ERROR, the fixed message 'Internal
\* error: URL not found in results map.' and empty ScreenshotFile, LogoFile
\* and ScrapedData, and aggregation does not fail.
C25_MissingResultRows == C25_Fallback /\ C25_AggregationDone

\* A table with an empty URL and a URL that a cancellation kept from being
\* scheduled has been aggregated.
C25_Witness ==
    /\ outputCsvPath
    /\ stopsIssued > 0
    /\ Scraped = {}
    /\ \E i \in 1..Len(inputRows) : inputRows[i].URL = ""
    /\ \E i \in 1..Len(inputRows) : inputRows[i].URL = Urls[1]


\* ------------------------------------------------------------------------
\* CsvSpec: parseInputCsv and generateOutputCsv cell by cell.
\*
\* A JavaScript value is written as a tagged string: "s:..." a string,
\* "n:..." a number, "b:..." a boolean, and the two values null and
\* undefined.  An object is a function from its keys to such values.

MaxCsvRows == 2

JsNull == "null"
JsUndefined == "undefined"
JsEmpty == "s:"

\* Falsy values: what 'v || d' and 'v ? a : b' treat as absent.
Falsy(v) == v \in {JsUndefined, JsNull, JsEmpty, "n:0", "b:false"}

\* v || d
OrElse(v, d) == IF Falsy(v) THEN d ELSE v

\* String(v)
JsString(v) ==
    CASE v = "n:0" -> "s:0"
      [] v = "n:7" -> "s:7"
      [] v = "b:false" -> "s:false"
      [] v = "b:true" -> "s:true"
      [] v = JsNull -> "s:null"
      [] v = JsUndefined -> "s:undefined"
      [] OTHER -> v

\* obj[k]
Get(obj, k) == IF k \in DOMAIN obj THEN obj[k] ELSE JsUndefined

\* { ...a, ...b }
Spread(a, b) ==
    [k \in DOMAIN a \cup DOMAIN b |-> IF k \in DOMAIN b THEN b[k] ELSE a[k]]

\* What Papa.parse with header, dynamicTyping and the trimming transform
\* yields for a cell: an empty cell is null, a numeric cell a number, the
\* cells true and false booleans, anything else the trimmed string.
UrlCells == {JsNull, "s:" \o Urls[1], "s:" \o Urls[2]}
BaseNameCells == {JsNull, "s:A"}
ExtraCells == {JsNull, "s:x", "n:0", "n:7", "b:false"}

CellsOf(col) ==
    CASE col = "URL" -> UrlCells
      [] col = "BaseName" -> BaseNameCells
      [] OTHER -> ExtraCells

\* The header rows a file may have; a row that has more or fewer fields than
\* the header is a parse error (line 28), so every row has the header's keys.
CsvHeaders == {{"URL"}, {"BaseName", "URL"}, {"URL", "Category"}}

RawRows(h) == {r \in [h -> UrlCells \cup BaseNameCells \cup ExtraCells] :
                   \A c \in h : r[c] \in CellsOf(c)}

RawTables ==
    UNION {UNION {[1..n -> RawRows(h)] : n \in 0..MaxCsvRows} : h \in CsvHeaders}

ResultHeaders == {"ScreenshotFile", "LogoFile", "ScrapedData", "Status", "ErrorMessage"}

\* One row of inputRows (lines 32-38): the four defaults, then the parsed
\* row spread over them.
ToInputRow(row) ==
    Spread([BaseName |-> JsString(OrElse(Get(row, "BaseName"), "s:untitled")),
            URL |-> JsString(OrElse(Get(row, "URL"), JsEmpty)),
            CSSSelector |-> IF Falsy(Get(row, "CSSSelector")) THEN JsUndefined
                            ELSE JsString(Get(row, "CSSSelector")),
            XPathSelector |-> IF Falsy(Get(row, "XPathSelector")) THEN JsUndefined
                              ELSE JsString(Get(row, "XPathSelector"))],
           row)

\* allHeaders (lines 62-65)
AllHeaders(rows) == UNION {DOMAIN rows[i] : i \in 1..Len(rows)} \cup ResultHeaders

\* The results a run may have stored for a URL.
CsvResults ==
    {[ScreenshotFile |-> "s:images/A.png", LogoFile |-> "s:images/A_logo.png",
      ScrapedData |-> "s:{}", Status |-> "s:SUCCESS", ErrorMessage |-> JsEmpty],
     [ScreenshotFile |-> JsEmpty, LogoFile |-> JsEmpty,
      ScrapedData |-> "s:{}", Status |-> "s:ERROR", ErrorMessage |-> "s:" \o NavMsg]}

\* The maps generateOutputCsv may be handed: results for some of the URLs.
CsvMaps == UNION {[d -> CsvResults] : d \in SUBSET (UrlCells \ {JsNull})}

\* outputRow (lines 79-85)
MergedRow(row, map) ==
    IF Get(row, "URL") \in DOMAIN map
        THEN Spread(row, map[Get(row, "URL")])
        ELSE Spread(row, [Status |-> "s:ERROR", ErrorMessage |-> "s:" \o MissingNote])

\* Mutant of CompleteCell: the cell is copied as it is.
CompleteCellAsIs(v) == v

\* completeRow[header] = outputRow[header] || '' (line 91)
CompleteCell(v) == OrElse(v, JsEmpty)

\* completeRow (lines 88-93)
CompleteRow(row, map, headers) ==
    [h \in headers |-> CompleteCell(Get(MergedRow(row, map), h))]

CsvFrame ==
    UNCHANGED <<inputVars, logVars, selVars, byVars, isScraping, pc, running, browser,
                browserState, totalUrls, processedUrls, errorCount, urlIndex,
                workers, scrapeResults, outputRows, outputCsvPath, fileWritten,
                lastStatus, stopClosing, stopsIssued, closeCalls, visits,
                thrown, fatal, lastProcessed, thrownAt, stopPoint>>

\* parseInputCsv, lines 32-38
CsvParse ==
    /\ csvPc = "raw"
    /\ csvRows' = [i \in 1..Len(csvRaw) |-> ToInputRow(csvRaw[i])]
    /\ csvPc' = "parsed"
    /\ UNCHANGED <<csvRaw, csvMap, csvOut>>
    /\ CsvFrame

\* generateOutputCsv, lines 59-95
CsvGenerate ==
    /\ csvPc = "parsed"
    /\ \E map \in CsvMaps :
         /\ csvMap' = map
         /\ csvOut' = [i \in 1..Len(csvRows) |->
                          CompleteRow(csvRows[i], map, AllHeaders(csvRows))]
    /\ csvPc' = "written"
    /\ UNCHANGED <<csvRaw, csvRows>>
    /\ CsvFrame

CsvNext == CsvParse \/ CsvGenerate

CsvInit ==
    /\ inputRows = << >>
    /\ concurrency = 1
    /\ site = [u \in UrlSet |-> "ok"]
    /\ Fresh
    /\ csvPc = "raw"
    /\ csvRaw \in RawTables
    /\ csvRows = << >>
    /\ csvMap = << >>
    /\ csvOut = << >>
    /\ SelIdle
    /\ ByIdle

CsvSpec == CsvInit /\ [][CsvNext]_vars

\* C26: every output row has a cell for every column of the union of the
\* input rows' columns and the five result columns, no cell is null or
\* undefined, and a cell whose value is missing for the row (an empty input
\* cell, or a result column the row has no result for) is the empty string.
C26_Missing(i, h) == Get(MergedRow(csvRows[i], csvMap), h) \in {JsNull, JsUndefined}

C26_EveryCellHasAValue ==
    csvPc = "written" =>
        /\ Len(csvOut) = Len(csvRaw)
        /\ \A i \in 1..Len(csvOut) :
             /\ DOMAIN csvOut[i] =
                    UNION {DOMAIN csvRows[j] : j \in 1..Len(csvRows)} \cup ResultHeaders
             /\ \A h \in DOMAIN csvOut[i] :
                  /\ csvOut[i][h] \notin {JsNull, JsUndefined}
                  /\ C26_Missing(i, h) => csvOut[i][h] = JsEmpty

\* C26 witness: a written row with an empty Category cell, no result in the
\* map and the selector columns the parser left undefined.
C26_Witness ==
    /\ csvPc = "written"
    /\ \E i \in 1..Len(csvOut) :
         /\ "Category" \in DOMAIN csvRaw[i]
         /\ csvRaw[i]["Category"] = JsNull
         /\ csvRows[i]["CSSSelector"] = JsUndefined
         /\ Get(csvRows[i], "URL") \notin DOMAIN csvMap
         /\ csvOut[i]["Category"] = JsEmpty
         /\ csvOut[i]["ScreenshotFile"] = JsEmpty

\* C27: every passthrough column that is not a result column carries the
\* parsed input value to the output unchanged (an empty cell stays empty),
\* the number 0 and the boolean false included.
C27_Passthrough(i) ==
    \A h \in DOMAIN csvRaw[i] \ ResultHeaders :
        csvOut[i][h] = IF csvRaw[i][h] = JsNull THEN JsEmpty ELSE csvRaw[i][h]

C27_PassthroughVerbatim ==
    csvPc = "written" => \A i \in 1..Len(csvRaw) : C27_Passthrough(i)

\* C27, the values the claim names apart: every passthrough cell other than
\* the number 0 and the boolean false reaches the output unchanged.
C27_PassthroughExceptFalsy ==
    csvPc = "written" =>
        \A i \in 1..Len(csvRaw) :
            \A h \in DOMAIN csvRaw[i] \ ResultHeaders :
                csvRaw[i][h] \notin {"n:0", "b:false"} =>
                    csvOut[i][h] = IF csvRaw[i][h] = JsNull THEN JsEmpty
                                   ELSE csvRaw[i][h]


\* ------------------------------------------------------------------------
\* SelSpec: the data block of scrapeUrl (lines 197-220) and scrapeCustomData.
\*
\* A string is the sequence of its characters; a run of characters holding
\* no ',', no '=' and no blank is written as one element.  undefined, null
\* and '' are all written << >>: the code only tests a selector spec with
\* '||'.

MaxSpecLen == 3

Blank == " "

\* s.trim()
RECURSIVE TrimLeft(_)
TrimLeft(s) == IF s # << >> /\ Head(s) = Blank THEN TrimLeft(Tail(s)) ELSE s

RECURSIVE TrimRight(_)
TrimRight(s) ==
    IF s # << >> /\ s[Len(s)] = Blank THEN TrimRight(SubSeq(s, 1, Len(s) - 1)) ELSE s

Trim(s) == TrimRight(TrimLeft(s))

\* s.includes(c)
Includes(s, c) == \E i \in 1..Len(s) : s[i] = c

FirstIndexOf(s, c) ==
    CHOOSE i \in 1..Len(s) : s[i] = c /\ \A j \in 1..(i - 1) : s[j] # c

\* s.split(c): every piece, the empty ones included
RECURSIVE Split(_, _)
Split(s, c) ==
    IF ~Includes(s, c) THEN <<s>>
    ELSE <<SubSeq(s, 1, FirstIndexOf(s, c) - 1)>>
             \o Split(SubSeq(s, FirstIndexOf(s, c) + 1, Len(s)), c)

\* s.split(c, limit): the first 'limit' pieces of s.split(c)
SplitLimit(s, c, limit) == SubSeq(Split(s, c), 1, Min(limit, Len(Split(s, c))))

\* a || b for strings
StrOr(a, b) == IF a # << >> THEN a ELSE b

\* .split(',').map(s => s.trim()).filter(s => s)  (lines 240-241)
Entries(spec) ==
    SelectSeq([i \in 1..Len(Split(spec, ",")) |-> Trim(Split(spec, ",")[i])],
              LAMBDA e : e # << >>)

\* Mutant of KindSpec: the row's list followed by the global list.
KindSpecMerged(rowSpec, cfgSpec) == rowSpec \o <<",">> \o cfgSpec

\* row.CSSSelector || this.config.selectors.css, and the same for XPath
KindSpec(rowSpec, cfgSpec) == StrOr(rowSpec, cfgSpec)

Tagged(type, entries) ==
    [i \in 1..Len(entries) |-> [type |-> type, selector |-> entries[i]]]

\* allSelectors (lines 240-246)
AllSelectors(in) ==
    Tagged("css", Entries(KindSpec(in.rowCss, in.cfgCss)))
        \o Tagged("xpath", Entries(KindSpec(in.rowXpath, in.cfgXpath)))

\* Mutant of SelectorsProvided: only the row's specs count.
SelectorsProvidedByRow(in) == StrOr(in.rowCss, in.rowXpath) # << >>

\* selectorsProvided (line 199), as the condition of line 201
SelectorsProvided(in) ==
    StrOr(StrOr(StrOr(in.rowCss, in.rowXpath), in.cfgCss), in.cfgXpath) # << >>

DataName == <<"data">>

\* [name, query] of line 249
ParseEntry(selector) ==
    IF Includes(selector, "=")
        THEN [name |-> Trim(SplitLimit(selector, "=", 2)[1]),
              query |-> Trim(SplitLimit(selector, "=", 2)[2])]
        ELSE [name |-> DataName, query |-> selector]

\* null as a value of the data object, apart from every string
NullValue == <<"null">>

\* What element.textContent() yields for an element that has text.
PageText == <<Blank, "t", Blank>>

\* How the lookup of one query ends: it throws, the element has no text,
\* or it has text.
LookupOutcomes == {"fail", "empty", "text"}

\* Mutant of Extracted: a failed lookup leaves the object as it is.
ExtractedSkipFailure(data, name, outcome) ==
    IF outcome = "text" THEN MapSet(data, name, Trim(PageText)) ELSE data

\* the data object after the try/catch of lines 253-266
Extracted(data, name, outcome) ==
    CASE outcome = "text" -> MapSet(data, name, Trim(PageText))
      [] outcome = "fail" -> MapSet(data, name, NullValue)
      [] OTHER -> data

\* the baseLog('WARN', ...) calls of lines 261 and 264
Warned(outcome) == IF outcome \in {"fail", "empty"} THEN 1 ELSE 0

\* JSON.stringify(obj): the text that denotes obj
Stringify(obj) == [json |-> obj]

EmptyObject == [n \in {} |-> NullValue]

\* The JSON texts the model may answer with (candidate.content.parts[0].text).
AiJson == Stringify(<<"mainHeadline">> :> <<"t">>)
AiJsonOfNulls == Stringify(<<"mainHeadline">> :> NullValue)
AiTexts == {AiJson, AiJsonOfNulls}

\* null as the value aiSmartScrape returns
AiNull == [isNull |-> TRUE, text |-> Stringify(EmptyObject)]

\* How a call of aiSmartScrape can end: without a key it returns at once
\* (lines 389-392); with one, page.evaluate may throw (401-404), the
\* response may be not OK (428-431), hold no candidate text (443-444),
\* fetch or response.json() may throw (446-449), or the text is returned.
AiEnds(aiApiKey) ==
    IF aiApiKey = << >> THEN {"no key"}
    ELSE {"no html", "not ok", "malformed", "network error", "text"}

\* the value aiSmartScrape returns
AiSmartScrape(end, text) ==
    IF end = "text" THEN [isNull |-> FALSE, text |-> text] ELSE AiNull

\* Mutant of AfterAi: the answer is dropped.
AfterAiDropped(scraped, aiResultJson) == scraped

\* result.ScrapedData after lines 207-210
AfterAi(scraped, aiResultJson) ==
    IF ~aiResultJson.isNull THEN aiResultJson.text ELSE scraped

SelFrame ==
    UNCHANGED <<inputVars, logVars, csvVars, byVars, isScraping, pc, running, browser,
                browserState, totalUrls, processedUrls, errorCount, urlIndex,
                workers, scrapeResults, outputRows, outputCsvPath, fileWritten,
                lastStatus, stopClosing, stopsIssued, closeCalls, visits,
                thrown, fatal, lastProcessed, thrownAt, stopPoint>>

\* lines 214-220: ScrapedData from a non-empty data object, then SUCCESS
Finish(scraped, data) ==
    /\ selScraped' = IF DOMAIN data # {} THEN Stringify(data) ELSE scraped
    /\ selStatus' = "SUCCESS"
    /\ selPc' = "done"

\* lines 198-202 and 237-246: selectors are provided, scrapeCustomData starts
SelCustomStart ==
    /\ selPc = "start"
    /\ SelectorsProvided(selIn)
    /\ selQueue' = AllSelectors(selIn)
    /\ selPc' = "loop"
    /\ UNCHANGED <<selIn, selTrace, selData, selWarns, selAiCalls, selAi, selScraped, selStatus>>
    /\ SelFrame

\* lines 248-266: one round of the loop over allSelectors
SelEvaluate ==
    /\ selPc = "loop"
    /\ selQueue # << >>
    /\ LET type == Head(selQueue).type
           selector == Head(selQueue).selector
           name == ParseEntry(selector).name
           query == ParseEntry(selector).query
           item == [type |-> type, selector |-> selector, name |-> name, query |-> query]
       IN  IF query = << >>
               THEN /\ selTrace' = Append(selTrace, item @@ [outcome |-> "skipped"])
                    /\ UNCHANGED <<selData, selWarns>>
               ELSE \E outcome \in LookupOutcomes :
                        /\ selTrace' = Append(selTrace, item @@ [outcome |-> outcome])
                        /\ selData' = Extracted(selData, name, outcome)
                        /\ selWarns' = selWarns + Warned(outcome)
    /\ selQueue' = Tail(selQueue)
    /\ UNCHANGED <<selPc, selIn, selAiCalls, selAi, selScraped, selStatus>>
    /\ SelFrame

\* lines 269, 203 and 214-220: scrapeCustomData returns
SelCustomDone ==
    /\ selPc = "loop"
    /\ selQueue = << >>
    /\ Finish(selScraped, selData)
    /\ UNCHANGED <<selIn, selQueue, selTrace, selData, selWarns, selAiCalls, selAi>>
    /\ SelFrame

\* lines 204-206: no selectors, AI Smart Scrape enabled: aiSmartScrape is called
SelAiCall ==
    /\ selPc = "start"
    /\ ~SelectorsProvided(selIn)
    /\ selIn.useAI
    /\ selAiCalls' = selAiCalls + 1
    /\ selPc' = "ai"
    /\ UNCHANGED <<selIn, selQueue, selTrace, selData, selWarns, selAi, selScraped, selStatus>>
    /\ SelFrame

\* lines 206-220: aiSmartScrape returns a JSON text or null
SelAiDone ==
    /\ selPc = "ai"
    /\ \E end \in AiEnds(selIn.aiApiKey), text \in AiTexts :
         /\ selAi' = [end |-> end, result |-> AiSmartScrape(end, text)]
         /\ Finish(AfterAi(selScraped, AiSmartScrape(end, text)), selData)
    /\ UNCHANGED <<selIn, selQueue, selTrace, selData, selWarns, selAiCalls>>
    /\ SelFrame

\* lines 198-220 with neither selectors nor AI Smart Scrape
SelNeither ==
    /\ selPc = "start"
    /\ ~SelectorsProvided(selIn)
    /\ ~selIn.useAI
    /\ Finish(selScraped, selData)
    /\ UNCHANGED <<selIn, selQueue, selTrace, selData, selWarns, selAiCalls, selAi>>
    /\ SelFrame

SelNext ==
    \/ SelCustomStart
    \/ SelEvaluate
    \/ SelCustomDone
    \/ SelAiCall
    \/ SelAiDone
    \/ SelNeither

\* The selector specs a row or the configuration may hold.
SpecChars == {"a", "=", ","}
GeneratedSpecs == UNION {[1..n -> SpecChars] : n \in 0..MaxSpecLen}
ReadmeXPath == <<"author", "=", "//span[@class", "=", "'author']">>
DefaultCss == <<"productName", "=", ".product-title", ",", Blank, "price", "=", ".price-value">>

SelInputs ==
    [rowCss : GeneratedSpecs,
     rowXpath : {<< >>, ReadmeXPath},
     cfgCss : {<< >>, <<"b">>, DefaultCss},
     cfgXpath : {<< >>, <<"x">>},
     useAI : BOOLEAN,
     aiApiKey : {<< >>, <<"key">>}]

SelInit ==
    /\ inputRows = << >>
    /\ concurrency = 1
    /\ site = [u \in UrlSet |-> "ok"]
    /\ Fresh
    /\ CsvIdle
    /\ ByIdle
    /\ selPc = "start"
    /\ selIn \in SelInputs
    /\ selQueue = << >>
    /\ selTrace = << >>
    /\ selData = EmptyObject
    /\ selWarns = 0
    /\ selAiCalls = 0
    /\ selAi = [end |-> "none", result |-> AiNull]
    /\ selScraped = Stringify(EmptyObject)
    /\ selStatus = "ERROR"

SelSpec == SelInit /\ [][SelNext]_vars


\* ---- C23 ----------------------------------------------------------------
\* C23: if the row or the configuration supplies any non-empty CSS or XPath
\* selector spec, every selector entry is evaluated and aiSmartScrape is
\* never called, AI Smart Scrape enabled or not; with no selector spec at
\* all aiSmartScrape is called exactly when AI Smart Scrape is enabled, and
\* with neither, ScrapedData stays the empty object.
C23_AnySpec ==
    \E k \in {"rowCss", "rowXpath", "cfgCss", "cfgXpath"} : selIn[k] # << >>

C23_SelectorsBeforeAi ==
    selPc \notin {"idle", "start"} =>
        /\ C23_AnySpec =>
               /\ selAiCalls = 0
               /\ selPc = "done" => Len(selTrace) = Len(AllSelectors(selIn))
        /\ ~C23_AnySpec =>
               /\ selTrace = << >>
               /\ selAiCalls = IF selIn.useAI THEN 1 ELSE 0
               /\ (~selIn.useAI /\ selPc = "done") => DOMAIN selScraped.json = {}

\* C23 witness: AI Smart Scrape is enabled, a selector spec is supplied,
\* every selector misses, and the URL is done without any AI call.
C23_Witness ==
    /\ selPc = "done"
    /\ selIn.useAI
    /\ selTrace # << >>
    /\ \A i \in 1..Len(selTrace) : selTrace[i].outcome = "fail"
    /\ selAiCalls = 0
    /\ selStatus = "SUCCESS"


\* ---- C28 ----------------------------------------------------------------
\* C28: when the row supplies a non-empty selector spec of one kind, the
\* selectors of that kind evaluated for the URL are exactly the row's
\* entries: the global list of the kind is neither used nor merged in.
C28_OfKind(type) ==
    SelectSeq([i \in 1..Len(selTrace) |->
                   [type |-> selTrace[i].type, selector |-> selTrace[i].selector]]
                  \o selQueue,
              LAMBDA e : e.type = type)

C29_Expected(selector) ==
    IF ~Includes(selector, "=")
        THEN [name |-> DataName, query |-> selector]
        ELSE [name |-> Trim(SubSeq(selector, 1, FirstIndexOf(selector, "=") - 1)),
              query |-> Trim(SubSeq(selector, FirstIndexOf(selector, "=") + 1,
                                    Len(selector)))]

C29_EntryAsExpected(i) ==
    /\ selTrace[i].name = C29_Expected(selTrace[i].selector).name
    /\ selTrace[i].query = C29_Expected(selTrace[i].selector).query

C29_QueryIsRemainder ==
    \A i \in 1..Len(selTrace) : C29_EntryAsExpected(i)

\* C29, the entries with at most one '=': these are evaluated as the claim
\* says.
C29_UpToOneEquals ==
    \A i \in 1..Len(selTrace) :
        Len(Split(selTrace[i].selector, "=")) <= 2 => C29_EntryAsExpected(i)

\* ---- C30 ----------------------------------------------------------------
\* C30: a selector whose lookup fails sets its field to null, a selector
\* whose element has empty text does not write its field; either way one
\* WARN is logged, every remaining selector is still evaluated, and the
\* URL ends with Status SUCCESS.
C30_Last == selTrace'[Len(selTrace')]

C30_Evaluated ==
    selTrace' # selTrace =>
        /\ C30_Last.outcome = "fail" =>
               /\ C30_Last.name \in DOMAIN selData'
               /\ selData'[C30_Last.name] = NullValue
               /\ \A n \in DOMAIN selData \ {C30_Last.name} :
                      n \in DOMAIN selData' /\ selData'[n] = selData[n]
               /\ selWarns' = selWarns + 1
        /\ C30_Last.outcome = "empty" =>
               /\ selData' = selData
               /\ selWarns' = selWarns + 1
        /\ selPc' = "loop"

C30_AllEvaluated ==
    (selPc = "done" /\ C23_AnySpec) =>
        /\ Len(selTrace) = Len(AllSelectors(selIn))
        /\ selStatus = "SUCCESS"

C30_MissesAreNotFailures == [](C30_AllEvaluated) /\ [][C30_Evaluated]_vars

\* C30 witness: a failed lookup, then a later selector with empty text, the
\* first field null, the second absent, two WARNs, Status SUCCESS.
C30_Witness ==
    /\ selPc = "done"
    /\ selStatus = "SUCCESS"
    /\ selWarns >= 2
    /\ \E i, j \in 1..Len(selTrace) :
         /\ i < j
         /\ selTrace[i].outcome = "fail"
         /\ selTrace[j].outcome = "empty"
         /\ selTrace[i].name \in DOMAIN selData
         /\ selData[selTrace[i].name] = NullValue
         /\ selTrace[j].name \notin DOMAIN selData


\* ---- C31 ----------------------------------------------------------------
\* C31: when aiSmartScrape was called and ended without a result (no API
\* key, page HTML unavailable, response not OK, malformed or empty answer,
\* network error), the URL ends with Status SUCCESS and ScrapedData '{}';
\* when it returned a text, ScrapedData is exactly that text.
C31_AiResultStored ==
    (selPc = "done" /\ selAiCalls > 0) =>
        /\ selStatus = "SUCCESS"
        /\ selAi.end \in {"no key", "no html", "not ok", "malformed", "network error", "text"}
        /\ selIn.aiApiKey = << >> => selAi.end = "no key"
        /\ selAi.end # "text" => DOMAIN selScraped.json = {}
        /\ selAi.end = "text" => selScraped \in AiTexts /\ selScraped = selAi.result.text

\* C31 witness: the call ended with a malformed answer and the URL is done.
C31_Witness ==
    /\ selPc = "done"
    /\ selAiCalls = 1
    /\ selAi.end = "malformed"
    /\ selStatus = "SUCCESS"

\* C31, the other case reached: a returned text stored as ScrapedData.
C31_TextStored ==
    /\ selPc = "done"
    /\ selAi.end = "text"
    /\ selScraped = AiJsonOfNulls


\* ------------------------------------------------------------------------
\* BypassSpec: one call of attemptBypass.

\* COMMON_POPUP_SELECTORS
CommonPopupSelectors ==
    <<"text=/accept|i agree|ok|got it/i", "[class*=\"cookie\"] button",
      "[id*=\"cookie\"] button", "[aria-label*=\"close\"]",
      "[class*=\"modal-close\"]", "[class*=\"popup-close\"]",
      "[class*=\"dismiss\"]", "button[title*=\"Close\"]",
      "button:has-text(\"No thanks\")",
      "div[style*=\"position: fixed\"][style*=\"z-index: 9999\"]",
      "div[id*=\"backdrop\"]">>

\* selector.includes('text='): true of the first selector only
TextBased(i) == CommonPopupSelectors[i] = "text=/accept|i agree|ok|got it/i"

\* What the page can answer to one heuristic: boundingBox() throws, yields
\* null or a box; evaluate(el => el.tagName) throws or yields a tag; the
\* click, the wait after it or the removal succeeds or throws.
BoxAnswers == {"throws", "null", "box"}
TagAnswers == {"throws", "BUTTON", "A", "DIV", "SECTION", "SPAN"}

\* How one round of the loop ends (lines 26-51): what was done to the page
\* and whether the catch block was entered.
HeuristicEnd(i, box, tag, ok) ==
    IF box = "throws" THEN [end |-> "absent", caught |-> TRUE]
    ELSE IF box = "null" THEN [end |-> "hidden", caught |-> FALSE]
    ELSE IF tag = "throws" THEN [end |-> "tag failed", caught |-> TRUE]
    ELSE IF tag \in {"BUTTON", "A"} \/ TextBased(i)
        THEN IF ok THEN [end |-> "clicked", caught |-> FALSE]
             ELSE [end |-> "click rejected", caught |-> TRUE]
    ELSE IF tag \in {"DIV", "SECTION"}
        THEN IF ok THEN [end |-> "removed", caught |-> FALSE]
             ELSE [end |-> "removal failed", caught |-> TRUE]
    ELSE [end |-> "left alone", caught |-> FALSE]

\* Mutant of AfterHeuristic: a caught failure leaves attemptBypass.
AfterHeuristicRethrown(i, e) ==
    IF e.caught THEN [pc |-> "thrown", next |-> i] ELSE [pc |-> "loop", next |-> i + 1]

\* Where the loop stands after a round: the catch block is empty (49-51)
AfterHeuristic(i, e) == [pc |-> "loop", next |-> i + 1]

ByFrame ==
    UNCHANGED <<inputVars, logVars, csvVars, selVars, isScraping, pc, running,
                browser, browserState, totalUrls, processedUrls, errorCount,
                urlIndex, workers, scrapeResults, outputRows, outputCsvPath,
                fileWritten, lastStatus, stopClosing, stopsIssued, closeCalls,
                visits, thrown, fatal, lastProcessed, thrownAt, stopPoint>>

\* line 23: the call logs and enters the loop
ByStart ==
    /\ byPc = "start"
    /\ byPc' = "loop"
    /\ UNCHANGED <<byNext, byOrder, byEnds>>
    /\ ByFrame

\* lines 25-52: one round of the loop
ByHeuristic ==
    /\ byPc = "loop"
    /\ byNext <= Len(CommonPopupSelectors)
    /\ \E box \in BoxAnswers, tag \in TagAnswers, ok \in BOOLEAN :
         LET e == HeuristicEnd(byNext, box, tag, ok)
         IN  /\ byOrder' = Append(byOrder, byNext)
             /\ byEnds' = byEnds \cup {e.end}
             /\ byPc' = AfterHeuristic(byNext, e).pc
             /\ byNext' = AfterHeuristic(byNext, e).next
    /\ ByFrame

\* line 54: the loop is over, attemptBypass logs and returns
ByFinish ==
    /\ byPc = "loop"
    /\ byNext > Len(CommonPopupSelectors)
    /\ byPc' = "done"
    /\ UNCHANGED <<byNext, byOrder, byEnds>>
    /\ ByFrame

ByNext == ByStart \/ ByHeuristic \/ ByFinish

ByInit ==
    /\ inputRows = << >>
    /\ concurrency = 1
    /\ site = [u \in UrlSet |-> "ok"]
    /\ Fresh
    /\ CsvIdle
    /\ SelIdle
    /\ byPc = "start"
    /\ byNext = 1
    /\ byOrder = << >>
    /\ byEnds = {}

BypassSpec == ByInit /\ [][ByNext]_vars

\* ---- C32 ----------------------------------------------------------------
\* C32: attemptBypass evaluates every heuristic of its list, in order: a
\* heuristic whose element is absent, whose click is rejected or whose
\* removal fails does not stop the loop, and no failure leaves
\* attemptBypass.
C32_AllHeuristicsTried ==
    /\ byPc \in {"idle", "start", "loop", "done"}
    /\ byOrder = [i \in 1..(byNext - 1) |-> i]
    /\ byPc = "done" => Len(byOrder) = Len(CommonPopupSelectors)

\* C32 witness: attemptBypass has returned after heuristics with an absent
\* element, a rejected click and a failed removal.
C32_Witness ==
    /\ byPc = "done"
    /\ {"absent", "click rejected", "removal failed"} \subseteq byEnds
    /\ Len(byOrder) = Len(CommonPopupSelectors)


\* ---- C33 ----------------------------------------------------------------
\* C33: in a run that is not stopped, the output table is the one that
\* follows from the input table and the sites' outcomes alone, whatever the
\* concurrency and the order in which the workers took and finished their
\* URLs; and the output is generated only when every worker has returned.
C33_Results == [u \in QueueUrls |-> NaturalResult(u)]

C33_ExpectedOutput == GenerateOutputCsv(inputRows, Remap(inputRows, C33_Results))

C33_OutputIndependentOfSchedule ==
    outputCsvPath =>
        /\ Active = {}
        /\ stopsIssued = 0 => outputRows = C33_ExpectedOutput

\* C33 witness: an unstopped run of two workers over two URLs with
\* different outcomes has written its output.
C33_Witness ==
    /\ outputCsvPath
    /\ stopsIssued = 0
    /\ concurrency = 2
    /\ Len(urlEntries) = 2
    /\ site[urlEntries[1].url] = "ok"
    /\ site[urlEntries[2].url] = "pagefail"
    /\ Len(outputRows) = 2
    /\ outputRows[1].Status = "SUCCESS"

\* C33, an interleaving in which completion order differs from input order:
\* the second URL's result is recorded while the first is still in flight.
C33_SecondFinishesFirst ==
    /\ Len(urlEntries) = 2
    /\ urlEntries[2].url \in Scraped
    /\ urlEntries[1].url \notin Scraped
    /\ urlEntries[1].url \in {visits[k] : k \in 1..Len(visits)}


\* ---- C34 ----------------------------------------------------------------
\* C34: a result-table entry, once written, is never changed or removed,
\* and a key is written only while its URL is in flight, hence once; the
\* duplicate remap and the output generation leave the table as it is.
C34_EntriesKept ==
    \A u \in DOMAIN scrapeResults :
        u \in DOMAIN scrapeResults' /\ scrapeResults'[u] = scrapeResults[u]

C34_WrittenOnce ==
    \A u \in DOMAIN scrapeResults' \ DOMAIN scrapeResults :
        /\ \E w \in DOMAIN workers :
               workers[w].st # "done" /\ urlEntries[workers[w].idx].url = u
        /\ Cardinality({k \in 1..Len(visits) : visits[k] = u}) = 1

C34_NoRemapInTable ==
    \A u \in DOMAIN scrapeResults : scrapeResults[u].Status # "DUPLICATE"

C34_ResultTableMonotone ==
    [](C34_NoRemapInTable) /\ [][C34_EntriesKept /\ C34_WrittenOnce]_vars

\* C34 witness: the output has a DUPLICATE row for a URL whose entry in the
\* scheduler's table still says SUCCESS.
C34_Witness ==
    /\ outputCsvPath
    /\ \E i \in 1..Len(outputRows) :
         /\ outputRows[i].Status = "DUPLICATE"
         /\ inputRows[i].URL \in DOMAIN scrapeResults
         /\ scrapeResults[inputRows[i].URL].Status = "SUCCESS"


\* ---- C35 ----------------------------------------------------------------
\* C35: in every state of a run processedUrls is the number of entries of
\* the result table and at most totalUrls, and errorCount is the number of
\* entries whose Status is ERROR.
C35_ErrorEntries == {u \in DOMAIN scrapeResults : scrapeResults[u].Status = "ERROR"}

C35_CountersMatchTable ==
    /\ processedUrls = Cardinality(DOMAIN scrapeResults)
    /\ processedUrls <= totalUrls
    /\ errorCount = Cardinality(C35_ErrorEntries)

\* C35 witness: two results recorded, one of them an ERROR.
C35_Witness ==
    /\ processedUrls = 2
    /\ errorCount = 1
    /\ Cardinality(DOMAIN scrapeResults) = 2


\* ---- C36 ----------------------------------------------------------------
\* C36: once stop() has emitted the label 'Cancelled', the run emits no
\* later progress update labelled 'Completed', 'Idle' or 'Running...'.
C36_CancelledStaysLast ==
    [][lastStatus = "Cancelled" =>
           lastStatus' \notin {"Completed", "Idle", "Running..."}]_vars


\* ---- C37 ----------------------------------------------------------------
\* C37: when start() has returned, whether the run completed, failed or was
\* cancelled, the running flag is false, the engine holds no browser
\* handle, and no worker is in a pipeline or holds a page.
C37_NothingLeftRunning ==
    pc = "returned" =>
        /\ ~running
        /\ ~browser
        /\ Active = {}
        /\ \A w \in DOMAIN workers : ~workers[w].page

\* C37 witness: start() has returned from a run that was cancelled while a
\* URL was in flight.
C37_Witness ==
    /\ pc = "returned"
    /\ stopsIssued > 0
    /\ stopPoint.pc = "pool"
    /\ \E u \in DOMAIN scrapeResults : scrapeResults[u].ErrorMessage = ClosedMsg

====
